---- MODULE Spec2Model ----
(***************************************************************************)
(* Model of app/__init__.py: configuration resolution, deep merge and the  *)
(* one-time logging initialisation of the PII-sec package.                 *)
(*                                                                         *)
(* Python dicts are objects on a heap: a dict value is a reference, so     *)
(* that sharing between DEFAULT_CONFIG, the parsed file and the merged     *)
(* configuration, and in-place mutation, are visible in the model.         *)
(***************************************************************************)
EXTENDS Integers, Sequences, FiniteSets, TLC

(***************************************************************************)
(* Bounds of the model.                                                    *)
(***************************************************************************)
HeapSize == 24          \* dict objects alive at any one time
MaxDepth == 2           \* nesting depth of the mappings given to the merge

(***************************************************************************)
(* Python values.  A value is a record [k, s, a]: k is the type, s the     *)
(* text of a string / bool / list / None, a the integer of an int or the   *)
(* heap address of a dict.                                                 *)
(***************************************************************************)
PyStr(s)  == [k |-> "str",  s |-> s, a |-> 0]
PyInt(n)  == [k |-> "int",  s |-> "", a |-> n]
PyBool(s) == [k |-> "bool", s |-> s, a |-> 0]
PyList(s) == [k |-> "list", s |-> s, a |-> 0]
PyNone  == [k |-> "none", s |-> "None", a |-> 0]
Ref(a)  == [k |-> "dict", s |-> "", a |-> a]

\* isinstance(v, dict)
IsDict(v) == v.k = "dict"

(***************************************************************************)
(* Structural values ("trees"): what a document or a dict looks like with  *)
(* the references followed.  A mapping is [k |-> "dict", m |-> key->tree]. *)
(***************************************************************************)
Map(f) == [k |-> "dict", m |-> f]
EmptyMap == Map(<<>>)

(***************************************************************************)
(* The heap: address -> cell; a free cell holds nothing.                   *)
(***************************************************************************)
Addrs == 1..HeapSize
FreeCell == [used |-> FALSE, d |-> <<>>]
Cell(d)  == [used |-> TRUE, d |-> d]

\* the address the next dict object gets
FreeAddr(h) == CHOOSE a \in DOMAIN h : ~h[a].used /\ \A b \in 1..(a - 1) : h[b].used

RECURSIVE TreeOf(_, _)
\* the structural value of v in heap h
TreeOf(h, v) ==
    IF IsDict(v)
    THEN Map([key \in DOMAIN h[v.a].d |-> TreeOf(h, h[v.a].d[key])])
    ELSE v

RECURSIVE Build(_, _)
RECURSIVE BuildItems(_, _, _, _)
\* a parser or a literal constructing the value of tree t: fresh dict objects
Build(h, t) ==
    IF ~IsDict(t) THEN [h |-> h, v |-> t]
    ELSE LET a == FreeAddr(h)
         IN  [h |-> BuildItems([h EXCEPT ![a] = Cell(<<>>)], a, t, DOMAIN t.m),
              v |-> Ref(a)]
BuildItems(h, a, t, keys) ==
    IF keys = {} THEN h
    ELSE LET key == CHOOSE x \in keys : TRUE
             r   == Build(h, t.m[key])
         IN  BuildItems([r.h EXCEPT ![a].d = (key :> r.v) @@ @], a, t, keys \ {key})

RECURSIVE SetToSeq(_)
\* the elements of S, in a fixed order
SetToSeq(S) ==
    IF S = {} THEN <<>>
    ELSE LET x == CHOOSE y \in S : TRUE IN <<x>> \o SetToSeq(S \ {x})

\* the dicts referenced from the dict at a
Children(h, a) ==
    LET ks == SetToSeq({key \in DOMAIN h[a].d : IsDict(h[a].d[key])})
    IN  [i \in 1..Len(ks) |-> h[a].d[ks[i]].a]

RECURSIVE Visit(_, _, _)
\* the objects reachable from the addresses of todo, in the order of a
\* depth-first walk
Visit(h, order, todo) ==
    IF todo = <<>> THEN order
    ELSE LET a == Head(todo)
         IN  IF \E i \in 1..Len(order) : order[i] = a
             THEN Visit(h, order, Tail(todo))
             ELSE Visit(h, Append(order, a), Children(h, a) \o Tail(todo))

Index(order, a) == CHOOSE i \in 1..Len(order) : order[i] = a
Renamed(order, v) == IF IsDict(v) THEN Ref(Index(order, v.a)) ELSE v

\* Objects that nothing references are freed (CPython reference counting)
\* and the live ones are numbered in the order of the walk from the roots:
\* an address carries no information but the identity of the object.
Compact(h, roots) ==
    LET order == Visit(h, <<>>, roots)
    IN  [order |-> order,
         h |-> [i \in DOMAIN h |->
                  IF i <= Len(order)
                  THEN Cell([key \in DOMAIN h[order[i]].d |->
                                Renamed(order, h[order[i]].d[key])])
                  ELSE FreeCell]]

(***************************************************************************)
(* DEFAULT_CONFIG (lines 45-59).                                           *)
(***************************************************************************)
DefaultFormat == "%(asctime)s %(levelname)s %(name)s - %(message)s"

DEFAULT_CONFIG_TREE ==
    Map([transport   |-> Map([require_tls |-> PyBool("True")]),
         permit_list |-> Map([recipients |-> PyList("[]")]),
         policy      |-> Map([actions |->
                            Map([insecure_transport         |-> PyStr("BLOCK"),
                                 contains_phi_not_permitted |-> PyStr("REDACT"),
                                 otherwise                  |-> PyStr("ALLOW")])]),
         logging     |-> Map([level  |-> PyStr("INFO"),
                              format |-> PyStr(DefaultFormat)])])

EmptyHeap == [a \in Addrs |-> FreeCell]

(***************************************************************************)
(* _deep_merge (lines 68-76).                                              *)
(***************************************************************************)
RECURSIVE deep_merge(_, _, _)
RECURSIVE MergeItems(_, _, _, _)

RECURSIVE MergeItems_replace(_, _, _, _)
\* lines 72-75 without the recursive branch: every key of override replaces
MergeItems_replace(h, res, items, keys) ==
    IF keys = {} THEN h
    ELSE LET key == CHOOSE x \in keys : TRUE
         IN  MergeItems_replace([h EXCEPT ![res].d = (key :> items[key]) @@ @],
                                res, items, keys \ {key})

\* the loop body of lines 71-75, for the keys of override still to visit
MergeItems(h, res, items, keys) ==
    IF keys = {} THEN h
    ELSE LET key == CHOOSE x \in keys : TRUE
             v   == items[key]
             cur == h[res].d
         IN  IF IsDict(v) /\ key \in DOMAIN cur /\ IsDict(cur[key])
             THEN LET r == deep_merge(h, cur[key].a, v)
                  IN  MergeItems([r.h EXCEPT ![res].d = (key :> Ref(r.a)) @@ @],
                                 res, items, keys \ {key})
             ELSE MergeItems([h EXCEPT ![res].d = (key :> v) @@ @],
                             res, items, keys \ {key})

\* line 70 as "result = base": the merge writes into base itself
deep_merge_inplace(h, base, override) ==
    LET items == IF IsDict(override) THEN h[override.a].d ELSE <<>>
    IN  [h |-> MergeItems(h, base, items, DOMAIN items), a |-> base]

\* line 70 as "result = {}": the keys of base are not carried over
deep_merge_fromEmpty(h, base, override) ==
    LET items == IF IsDict(override) THEN h[override.a].d ELSE <<>>
        res   == FreeAddr(h)
        h1    == [h EXCEPT ![res] = Cell(<<>>)]
    IN  [h |-> MergeItems(h1, res, items, DOMAIN items), a |-> res]

\* base: address of a dict; override: a dict reference or None.
\* Yields the heap after the call and the address of the result.
deep_merge(h, base, override) ==
    LET items == IF IsDict(override) THEN h[override.a].d ELSE <<>>
        res   == FreeAddr(h)
        h1    == [h EXCEPT ![res] = Cell(h[base].d)]
    IN  [h |-> MergeItems(h1, res, items, DOMAIN items), a |-> res]

(***************************************************************************)
(* State.                                                                  *)
(***************************************************************************)
VARIABLES
    heap,                 \* the dict objects
    environ,              \* os.environ: the variable PIISEC_CONFIG
    ENV_CONFIG_PATH,      \* module global, line 39
    CONFIG_PATH,          \* module global, line 40
    CONFIG,               \* module global _CONFIG: address of the dict
    LOGGING_CONFIGURED,   \* module global _LOGGING_CONFIGURED
    root,                 \* the root logger of the logging backend
    imported,             \* how far the import of the package has got
    pc,                   \* per thread: position in reload_config / get_config
    loc,                  \* per thread: locals of the running call
    mrg                   \* a direct call of _deep_merge: arguments and results

vars == <<heap, environ, ENV_CONFIG_PATH, CONFIG_PATH, CONFIG,
          LOGGING_CONFIGURED, root, imported, pc, loc, mrg>>

(***************************************************************************)
(* Module globals after lines 45-62: DEFAULT_CONFIG is the first object    *)
(* built, _CONFIG = {} the next.                                           *)
(***************************************************************************)
DEFAULT_CONFIG == 1

HeapAfterDefaults == Build(EmptyHeap, DEFAULT_CONFIG_TREE).h
InitialConfig == Build(HeapAfterDefaults, EmptyMap)

Threads == {"main", "worker"}

\* an environment variable that is not set; the path globals before line 39
NoPathEnv == [set |-> FALSE, val |-> <<>>]
UndefinedPath == [root |-> "undefined", parts |-> <<>>]

\* the locals of a call that has not run yet
NoEnv == [set |-> FALSE, val |-> ""]
BlankLocals ==
    [path       |-> UndefinedPath, \* the path line 109 gave to the loader
     file_cfg   |-> PyNone,     \* reload_config: file_cfg
     outcome    |-> "",         \* what the read of the file met
     made       |-> PyNone,     \* the result of _deep_merge at line 110
     cfg        |-> PyNone,     \* _configure_logging: cfg
     env_level  |-> NoEnv,      \* what os.getenv("PIISEC_LOG_LEVEL") saw
     level_name |-> PyNone,     \* _configure_logging: level_name
     level      |-> PyNone,     \* _configure_logging: level
     fmt        |-> PyNone,     \* _configure_logging: fmt
     ret        |-> PyNone,     \* the value the call returned to its caller
     exc        |-> ""]         \* the exception that ended the call, if any

\* the root logger before any configuration: level WARNING (30), no handler
RootInitial == [handlers |-> 0, level |-> 30, fmt |-> ""]

MrgIdle == [pc |-> "none", base |-> 0, override |-> PyNone, B0 |-> PyNone,
            O0 |-> PyNone, result |-> 0, again |-> 0]

(***************************************************************************)
(* Paths (lines 37-40).  A path string is a sequence of tokens: "/" the    *)
(* separator, "." the current directory, anything else a name.             *)
(***************************************************************************)
\* pathlib.Path(s): empty components and "." components are dropped
PathOf(s) ==
    [root  |-> IF Len(s) > 0 /\ s[1] = "/" THEN "/" ELSE "",
     parts |-> SelectSeq(s, LAMBDA c : c \notin {"/", "."})]

\* PKG_DIR / "config.yaml"
DEFAULT_CONFIG_PATH == [root |-> "/", parts |-> <<"site-packages", "app", "config.yaml">>]

\* line 40 with "is not None" in place of the truth test
ResolveConfigPath_notNone(e) ==
    IF e.set THEN PathOf(e.val) ELSE DEFAULT_CONFIG_PATH

\* line 40: Path(ENV_CONFIG_PATH) if ENV_CONFIG_PATH else DEFAULT_CONFIG_PATH
ResolveConfigPath(e) ==
    IF e.set /\ e.val # <<>> THEN PathOf(e.val) ELSE DEFAULT_CONFIG_PATH

\* the values PIISEC_CONFIG has in the model
EnvPathValues ==
    {NoPathEnv,
     [set |-> TRUE, val |-> <<>>],
     [set |-> TRUE, val |-> <<".", "/", "conf", "/", "/", "piisec.yaml">>]}

(***************************************************************************)
(* _load_file_config (lines 79-90).                                        *)
(***************************************************************************)
\* bool(v)
Truthy(h, v) ==
    CASE v.k = "none" -> FALSE
      [] v.k = "dict" -> DOMAIN h[v.a].d # {}
      [] v.k = "int"  -> v.a # 0
      [] v.k = "bool" -> v.s = "True"
      [] v.k = "list" -> v.s # "[]"
      [] OTHER        -> v.s # ""

\* lines 85-86 left out: whatever the document holds is returned
LoadBody_noTypeCheck(h, fs) ==
    CASE fs.kind = "open_error"   -> [h |-> h, v |-> PyNone, exc |-> "OSError"]
      [] fs.kind = "decode_error" -> [h |-> h, v |-> PyNone, exc |-> "UnicodeDecodeError"]
      [] fs.kind = "yaml_error"   -> [h |-> h, v |-> PyNone, exc |-> "YAMLError"]
      [] OTHER ->
            LET loaded == Build(h, fs.doc)
                data   == IF Truthy(loaded.h, loaded.v)
                          THEN loaded
                          ELSE Build(loaded.h, EmptyMap)
            IN  [h |-> data.h, v |-> data.v, exc |-> ""]

\* lines 83-87, the body of the try: the heap, the value returned and the
\* exception raised ("" when none)
LoadBody(h, fs) ==
    CASE fs.kind = "open_error"   -> [h |-> h, v |-> PyNone, exc |-> "OSError"]
      [] fs.kind = "decode_error" -> [h |-> h, v |-> PyNone, exc |-> "UnicodeDecodeError"]
      [] fs.kind = "yaml_error"   -> [h |-> h, v |-> PyNone, exc |-> "YAMLError"]
      [] OTHER ->
            LET loaded == Build(h, fs.doc)                 \* yaml.safe_load(f)
                data   == IF Truthy(loaded.h, loaded.v)    \* ... or {}
                          THEN loaded
                          ELSE Build(loaded.h, EmptyMap)
            IN  IF ~IsDict(data.v)
                THEN LET e == Build(data.h, EmptyMap)
                     IN  [h |-> e.h, v |-> e.v, exc |-> ""]
                ELSE [h |-> data.h, v |-> data.v, exc |-> ""]

\* fs: the state of the file at the path when it is read
load_file_config(h, fs) ==
    IF fs.kind = "absent"                                  \* not path.exists()
    THEN LET e == Build(h, EmptyMap) IN [h |-> e.h, v |-> e.v, exc |-> ""]
    ELSE LET r == LoadBody(h, fs)
         IN  IF r.exc # ""                                 \* except Exception
             THEN LET e == Build(h, EmptyMap) IN [h |-> e.h, v |-> e.v, exc |-> ""]
             ELSE r

(***************************************************************************)
(* _configure_logging (lines 93-103) and the parts of the logging module   *)
(* it uses.                                                                *)
(***************************************************************************)
\* cfg.get(k1, {}).get(k2, default): AttributeError when cfg[k1] is no dict
GetNested(h, cfg, k1, k2, default) ==
    LET d == h[cfg.a].d
    IN  IF k1 \notin DOMAIN d THEN [v |-> default, exc |-> ""]
        ELSE IF ~IsDict(d[k1]) THEN [v |-> PyNone, exc |-> "AttributeError"]
        ELSE IF k2 \in DOMAIN h[d[k1].a].d
             THEN [v |-> h[d[k1].a].d[k2], exc |-> ""]
             ELSE [v |-> default, exc |-> ""]

\* os.getenv(name, default) that never looks at the environment
getenv_ignored(e, default) == default

\* os.getenv(name, default), e being the variable in the environment
getenv(e, default) == IF e.set THEN PyStr(e.val) ELSE default

\* the values PIISEC_LOG_LEVEL has in the model
EnvLevelValues ==
    {NoEnv} \cup {[set |-> TRUE, val |-> n] :
                    n \in {"DEBUG", "debug", "nonsense", "BASIC_FORMAT", ""}}

\* str.upper() on the level names of the model
Upper(n) ==
    CASE n = "debug"        -> "DEBUG"
      [] n = "nonsense"     -> "NONSENSE"
      [] n = "verbose"      -> "VERBOSE"
      [] n = "basic_format" -> "BASIC_FORMAT"
      [] OTHER              -> n

\* getattr(logging, name, logging.INFO): the upper-case attributes of the
\* logging module are the levels and BASIC_FORMAT
LoggingAttr(name) ==
    CASE name = "CRITICAL" -> PyInt(50)
      [] name = "FATAL"    -> PyInt(50)
      [] name = "ERROR"    -> PyInt(40)
      [] name = "WARNING"  -> PyInt(30)
      [] name = "WARN"     -> PyInt(30)
      [] name = "INFO"     -> PyInt(20)
      [] name = "DEBUG"    -> PyInt(10)
      [] name = "NOTSET"   -> PyInt(0)
      [] name = "BASIC_FORMAT" -> PyStr("%(levelname)s:%(name)s:%(message)s")
      [] OTHER             -> PyInt(20)

\* logging.basicConfig(level=level, format=fmt) on root logger r: nothing is
\* done when the root logger has a handler; otherwise a handler with the
\* format is added and then the level is set, setLevel raising ValueError
\* for a string that names no level.  fmt is a %-style template.
basicConfig(r, level, fmt) ==
    IF r.handlers > 0 THEN [root |-> r, exc |-> ""]
    ELSE LET r1 == [r EXCEPT !.handlers = 1, !.fmt = fmt.s]
         IN  IF level.k = "int"
             THEN [root |-> [r1 EXCEPT !.level = level.a], exc |-> ""]
             ELSE [root |-> r1, exc |-> IF level.k = "str" THEN "ValueError" ELSE "TypeError"]

(***************************************************************************)
(* Direct calls of _deep_merge on bounded mappings.                        *)
(***************************************************************************)
Absent == [k |-> "absent", s |-> "", a |-> 0]
MScalars == {PyStr("x"), PyList("[1]")}

\* the mapping with "a" -> x and "b" -> y, a key left out when Absent
MPair(x, y) ==
    Map((IF x = Absent THEN <<>> ELSE ("a" :> x)) @@
        (IF y = Absent THEN <<>> ELSE ("b" :> y)))

RECURSIVE MDicts(_)
\* mappings nested at most d deep (nesting under key "a")
MDicts(d) ==
    IF d = 0 THEN {}
    ELSE {MPair(x, y) : x \in MScalars \cup MDicts(d - 1) \cup {Absent},
                        y \in MScalars \cup {Absent}}

\* the mappings written in configuration files that the model reads
FileDocs ==
    {Map([logging |-> Map([level |-> PyStr("DEBUG")])]),
     Map([logging |-> Map([level |-> PyStr("ERROR")])]),
     Map([logging |-> Map([level |-> PyStr("verbose")])]),
     Map([logging |-> Map([level |-> PyStr("basic_format")])]),
     Map([logging |-> Map([level |-> PyInt(10)])]),
     Map([logging |-> PyNone]),
     Map([logging |-> PyStr("DEBUG")]),
     Map([logging |-> Map([format |-> PyStr("%(message)s")])]),
     Map([policy |-> Map([actions |-> Map([otherwise |-> PyStr("BLOCK")])])]),
     Map([transport |-> PyStr("off"), extra |-> Map([x |-> PyInt(1)])]),
     EmptyMap}

MergeBases == MDicts(MaxDepth) \cup {DEFAULT_CONFIG_TREE}
MergeOverrides == MDicts(MaxDepth) \cup FileDocs \cup {PyNone}

MergeInit ==
    /\ \E B \in MergeBases, O \in MergeOverrides :
          LET b == IF B = DEFAULT_CONFIG_TREE
                   THEN [h |-> InitialConfig.h, v |-> Ref(DEFAULT_CONFIG)]
                   ELSE Build(InitialConfig.h, B)
              o == Build(b.h, O)
          IN  /\ heap = o.h
              /\ mrg = [pc |-> "start", base |-> b.v.a, override |-> o.v,
                        B0 |-> B, O0 |-> O, result |-> 0, again |-> 0]
    /\ environ = NoPathEnv
    /\ ENV_CONFIG_PATH = NoPathEnv
    /\ CONFIG_PATH = UndefinedPath
    /\ CONFIG = InitialConfig.v.a
    /\ LOGGING_CONFIGURED = FALSE
    /\ root = RootInitial
    /\ imported = "start"
    /\ pc = [t \in Threads |-> "idle"]
    /\ loc = [t \in Threads |-> BlankLocals]

\* _deep_merge(B, O)
MergeCall ==
    /\ mrg.pc = "start"
    /\ LET r == deep_merge(heap, mrg.base, mrg.override)
       IN  /\ heap' = r.h
           /\ mrg' = [mrg EXCEPT !.pc = "called", !.result = r.a]
    /\ UNCHANGED <<environ, ENV_CONFIG_PATH, CONFIG_PATH, CONFIG, LOGGING_CONFIGURED,
                   root, imported, pc, loc>>

\* _deep_merge(B, O) once more, with the same arguments
MergeAgain ==
    /\ mrg.pc = "called"
    /\ LET r == deep_merge(heap, mrg.base, mrg.override)
       IN  /\ heap' = r.h
           /\ mrg' = [mrg EXCEPT !.pc = "again", !.again = r.a]
    /\ UNCHANGED <<environ, ENV_CONFIG_PATH, CONFIG_PATH, CONFIG, LOGGING_CONFIGURED,
                   root, imported, pc, loc>>

MergeNext == MergeCall \/ MergeAgain

SpecMerge == MergeInit /\ [][MergeNext]_vars

(***************************************************************************)
(* The package: import, reload_config() and get_config() called by the     *)
(* threads of the host process.                                            *)
(***************************************************************************)
\* what a read of the configuration file can meet
FileStates ==
    {[kind |-> k, doc |-> PyNone] :
        k \in {"absent", "open_error", "decode_error", "yaml_error", "empty"}}
    \cup {[kind |-> "nonmapping", doc |-> d] :
            d \in {PyList("[a, b]"), PyStr("hello"), PyInt(0)}}
    \cup {[kind |-> "mapping", doc |-> d] : d \in FileDocs}

\* the mappings a file holds when it is read again after the import
RuntimeDocs ==
    {Map([logging |-> Map([level |-> PyStr("DEBUG")])]),
     Map([policy |-> Map([actions |-> Map([otherwise |-> PyStr("BLOCK")])])])}

\* what the read of a reload_config() call can meet: anything at import;
\* later a missing file, a file that does not parse, a list, or a mapping
\* of RuntimeDocs
FilesRead(phase) ==
    IF phase = "paths" THEN FileStates
    ELSE {fs \in FileStates :
            \/ fs.kind \in {"absent", "yaml_error"}
            \/ fs.kind = "nonmapping" /\ fs.doc.k = "list"
            \/ fs.kind = "mapping" /\ fs.doc \in RuntimeDocs}

\* the references a call holds in its locals
LocalRefs(l) == SelectSeq(<<l.file_cfg, l.made, l.cfg, l.ret>>, IsDict)

\* the dict objects referenced by the globals and by the calls
LiveRoots(config, lc) ==
    LET ts   == SetToSeq(Threads)
        refs == LocalRefs(lc[ts[1]]) \o LocalRefs(lc[ts[2]])
    IN  <<DEFAULT_CONFIG, config>> \o [i \in 1..Len(refs) |-> refs[i].a]

\* the state of the objects after a step that left heap h, _CONFIG at
\* config and the locals lc
Commit(h, config, lc) ==
    LET c == Compact(h, LiveRoots(config, lc))
    IN  /\ heap' = c.h
        /\ CONFIG' = Index(c.order, config)
        /\ loc' = [t \in Threads |->
                     [lc[t] EXCEPT !.file_cfg = Renamed(c.order, @),
                                   !.made = Renamed(c.order, @),
                                   !.cfg = Renamed(c.order, @),
                                   !.ret = Renamed(c.order, @)]]

Init ==
    /\ heap = Compact(InitialConfig.h, <<DEFAULT_CONFIG, InitialConfig.v.a>>).h
    /\ environ \in EnvPathValues
    /\ ENV_CONFIG_PATH = NoPathEnv
    /\ CONFIG_PATH = UndefinedPath
    /\ CONFIG = InitialConfig.v.a
    /\ LOGGING_CONFIGURED = FALSE
    /\ root = RootInitial
    /\ imported = "start"
    /\ pc = [t \in Threads |-> "idle"]
    /\ loc = [t \in Threads |-> BlankLocals]
    /\ mrg = MrgIdle

\* lines 37-40: the path globals, from the environment at import
ImportPaths ==
    /\ imported = "start"
    /\ ENV_CONFIG_PATH' = environ
    /\ CONFIG_PATH' = ResolveConfigPath(environ)
    /\ imported' = "paths"
    /\ UNCHANGED <<heap, environ, CONFIG, LOGGING_CONFIGURED, root, pc, loc, mrg>>

\* the call ends with exception e: its locals are released; an exception
\* out of the call of line 126 makes the import fail
Raised(t, e) ==
    /\ pc' = [pc EXCEPT ![t] = "idle"]
    /\ imported' = IF imported = "paths" THEN "failed" ELSE imported
    /\ Commit(heap, CONFIG,
              [loc EXCEPT ![t] = [@ EXCEPT !.file_cfg = PyNone, !.made = PyNone,
                                           !.cfg = PyNone, !.exc = e]])

\* reload_config() that clears the flag so as to configure logging again
Call_resetFlag(t) ==
    /\ pc[t] = "idle"
    /\ \/ imported = "paths" /\ t = "main" /\ loc[t] = BlankLocals
       \/ imported = "done"
    /\ pc' = [pc EXCEPT ![t] = "L109"]
    /\ LOGGING_CONFIGURED' = FALSE
    /\ Commit(heap, CONFIG, [loc EXCEPT ![t] = BlankLocals])
    /\ UNCHANGED <<environ, ENV_CONFIG_PATH, CONFIG_PATH, root, imported, mrg>>

\* reload_config() is called: at line 126 by the importing thread, later by
\* any thread
Call(t) ==
    /\ pc[t] = "idle"
    /\ \/ imported = "paths" /\ t = "main" /\ loc[t] = BlankLocals
       \/ imported = "done"
    /\ pc' = [pc EXCEPT ![t] = "L109"]
    /\ Commit(heap, CONFIG, [loc EXCEPT ![t] = BlankLocals])
    /\ UNCHANGED <<environ, ENV_CONFIG_PATH, CONFIG_PATH, LOGGING_CONFIGURED,
                   root, imported, mrg>>

\* line 109 resolving the path again from the environment of the moment
Load_fromEnviron(t) ==
    /\ pc[t] = "L109"
    /\ \E fs \in FilesRead(imported) :
          LET r == load_file_config(heap, fs)
          IN  IF r.exc # ""
              THEN Raised(t, r.exc)
              ELSE /\ Commit(r.h, CONFIG,
                             [loc EXCEPT ![t].path = ResolveConfigPath(environ),
                                         ![t].file_cfg = r.v,
                                         ![t].outcome = fs.kind])
                   /\ pc' = [pc EXCEPT ![t] = "L110"]
                   /\ UNCHANGED imported
    /\ UNCHANGED <<environ, ENV_CONFIG_PATH, CONFIG_PATH, LOGGING_CONFIGURED, root, mrg>>

\* line 109: file_cfg = _load_file_config(CONFIG_PATH)
Load(t) ==
    /\ pc[t] = "L109"
    /\ \E fs \in FilesRead(imported) :
          LET r == load_file_config(heap, fs)
          IN  IF r.exc # ""
              THEN Raised(t, r.exc)
              ELSE /\ Commit(r.h, CONFIG,
                             [loc EXCEPT ![t].path = CONFIG_PATH,
                                         ![t].file_cfg = r.v,
                                         ![t].outcome = fs.kind])
                   /\ pc' = [pc EXCEPT ![t] = "L110"]
                   /\ UNCHANGED imported
    /\ UNCHANGED <<environ, ENV_CONFIG_PATH, CONFIG_PATH, LOGGING_CONFIGURED, root, mrg>>

\* line 110 storing the copy of the defaults before the file is merged in
Merge_halfMerged(t) ==
    /\ pc[t] = "L110"
    /\ LET r == deep_merge(heap, DEFAULT_CONFIG, PyNone)
       IN  Commit(r.h, r.a, [loc EXCEPT ![t].made = Ref(r.a)])
    /\ pc' = [pc EXCEPT ![t] = "L111"]
    /\ UNCHANGED <<environ, ENV_CONFIG_PATH, CONFIG_PATH, LOGGING_CONFIGURED, root,
                   imported, mrg>>

\* line 110 merging the file into the previous effective configuration
Merge_ontoPrevious(t) ==
    /\ pc[t] = "L110"
    /\ LET r == deep_merge(heap, CONFIG, loc[t].file_cfg)
       IN  Commit(r.h, r.a, [loc EXCEPT ![t].made = Ref(r.a)])
    /\ pc' = [pc EXCEPT ![t] = "L111"]
    /\ UNCHANGED <<environ, ENV_CONFIG_PATH, CONFIG_PATH, LOGGING_CONFIGURED, root,
                   imported, mrg>>

\* line 110 with the arguments of _deep_merge exchanged
Merge_swapped(t) ==
    /\ pc[t] = "L110"
    /\ LET r == deep_merge(heap, loc[t].file_cfg.a, Ref(DEFAULT_CONFIG))
       IN  Commit(r.h, r.a, [loc EXCEPT ![t].made = Ref(r.a)])
    /\ pc' = [pc EXCEPT ![t] = "L111"]
    /\ UNCHANGED <<environ, ENV_CONFIG_PATH, CONFIG_PATH, LOGGING_CONFIGURED, root,
                   imported, mrg>>

\* line 110: _CONFIG = _deep_merge(DEFAULT_CONFIG, file_cfg)
Merge(t) ==
    /\ pc[t] = "L110"
    /\ LET r == deep_merge(heap, DEFAULT_CONFIG, loc[t].file_cfg)
       IN  Commit(r.h, r.a, [loc EXCEPT ![t].made = Ref(r.a)])
    /\ pc' = [pc EXCEPT ![t] = "L111"]
    /\ UNCHANGED <<environ, ENV_CONFIG_PATH, CONFIG_PATH, LOGGING_CONFIGURED, root,
                   imported, mrg>>

\* lines 95-96 and 103 as one atomic test-and-set of the flag
EnterConfigureLogging_testAndSet(t) ==
    /\ pc[t] = "L111"
    /\ Commit(heap, CONFIG, [loc EXCEPT ![t].cfg = Ref(CONFIG)])
    /\ pc' = [pc EXCEPT ![t] = IF LOGGING_CONFIGURED THEN "L112" ELSE "L98"]
    /\ LOGGING_CONFIGURED' = TRUE
    /\ UNCHANGED <<environ, ENV_CONFIG_PATH, CONFIG_PATH, root, imported, mrg>>

\* lines 111 and 95-96: _configure_logging(_CONFIG) is entered and returns
\* at once when the flag is set
EnterConfigureLogging(t) ==
    /\ pc[t] = "L111"
    /\ Commit(heap, CONFIG, [loc EXCEPT ![t].cfg = Ref(CONFIG)])
    /\ pc' = [pc EXCEPT ![t] = IF LOGGING_CONFIGURED THEN "L112" ELSE "L98"]
    /\ UNCHANGED <<environ, ENV_CONFIG_PATH, CONFIG_PATH, LOGGING_CONFIGURED,
                   root, imported, mrg>>

\* line 98: the default argument is evaluated first, then the environment
\* is read
LevelName(t) ==
    /\ pc[t] = "L98"
    /\ \E e \in EnvLevelValues :
          LET d == GetNested(heap, loc[t].cfg, "logging", "level", PyStr("INFO"))
          IN  IF d.exc # ""
              THEN Raised(t, d.exc)
              ELSE /\ loc' = [loc EXCEPT ![t].env_level = e,
                                         ![t].level_name = getenv(e, d.v)]
                   /\ pc' = [pc EXCEPT ![t] = "L99"]
                   /\ UNCHANGED <<heap, CONFIG, imported>>
    /\ UNCHANGED <<environ, ENV_CONFIG_PATH, CONFIG_PATH, LOGGING_CONFIGURED, root, mrg>>

\* lines 99-100: level and fmt; a level name that is no str has no upper()
LevelAndFormat(t) ==
    /\ pc[t] = "L99"
    /\ LET f == GetNested(heap, loc[t].cfg, "logging", "format",
                          heap[heap[DEFAULT_CONFIG].d["logging"].a].d["format"])
       IN  IF loc[t].level_name.k # "str"
           THEN Raised(t, "AttributeError")
           ELSE IF f.exc # ""
           THEN Raised(t, f.exc)
           ELSE /\ loc' = [loc EXCEPT
                             ![t].level = LoggingAttr(Upper(loc[t].level_name.s)),
                             ![t].fmt = f.v]
                /\ pc' = [pc EXCEPT ![t] = "L102"]
                /\ UNCHANGED <<heap, CONFIG, imported>>
    /\ UNCHANGED <<environ, ENV_CONFIG_PATH, CONFIG_PATH, LOGGING_CONFIGURED, root, mrg>>

\* line 102: logging.basicConfig(level=level, format=fmt)
BasicConfig(t) ==
    /\ pc[t] = "L102"
    /\ LET r == basicConfig(root, loc[t].level, loc[t].fmt)
       IN  /\ root' = r.root
           /\ IF r.exc # ""
              THEN Raised(t, r.exc)
              ELSE /\ pc' = [pc EXCEPT ![t] = "L103"]
                   /\ UNCHANGED <<heap, CONFIG, loc, imported>>
    /\ UNCHANGED <<environ, ENV_CONFIG_PATH, CONFIG_PATH, LOGGING_CONFIGURED, mrg>>

\* line 103: _LOGGING_CONFIGURED = True
SetFlag(t) ==
    /\ pc[t] = "L103"
    /\ LOGGING_CONFIGURED' = TRUE
    /\ pc' = [pc EXCEPT ![t] = "L112"]
    /\ UNCHANGED <<heap, environ, ENV_CONFIG_PATH, CONFIG_PATH, CONFIG, root, imported,
                   loc, mrg>>

\* line 112: return _CONFIG; the caller holds what was returned
Return(t) ==
    /\ pc[t] = "L112"
    /\ Commit(heap, CONFIG,
              [loc EXCEPT ![t] = [BlankLocals EXCEPT !.ret = Ref(CONFIG)]])
    /\ pc' = [pc EXCEPT ![t] = "idle"]
    /\ UNCHANGED <<environ, ENV_CONFIG_PATH, CONFIG_PATH, LOGGING_CONFIGURED,
                   root, imported, mrg>>

\* lines 127-168: the rest of the module body, after reload_config() returned
ImportFinish ==
    /\ imported = "paths"
    /\ pc["main"] = "idle"
    /\ loc["main"].ret # PyNone
    /\ imported' = "done"
    /\ UNCHANGED <<heap, environ, ENV_CONFIG_PATH, CONFIG_PATH, CONFIG, LOGGING_CONFIGURED,
                   root, pc, loc, mrg>>

\* lines 115-117: get_config()
get_config(t) ==
    /\ imported = "done"
    /\ pc[t] = "idle"
    /\ Commit(heap, CONFIG,
              [loc EXCEPT ![t] = [BlankLocals EXCEPT !.ret = Ref(CONFIG)]])
    /\ UNCHANGED <<environ, ENV_CONFIG_PATH, CONFIG_PATH, LOGGING_CONFIGURED,
                   root, imported, pc, mrg>>

\* reload_config(), lines 106-112 with the call of _configure_logging
reload_config(t) ==
    \/ Call(t)
    \/ Load(t)
    \/ Merge(t)
    \/ EnterConfigureLogging(t)
    \/ LevelName(t)
    \/ LevelAndFormat(t)
    \/ BasicConfig(t)
    \/ SetFlag(t)
    \/ Return(t)

Next ==
    \/ ImportPaths
    \/ ImportFinish
    \/ \E t \in Threads : reload_config(t)
    \/ \E t \in Threads : get_config(t)

Spec == Init /\ [][Next]_vars

(***************************************************************************)
(* A single-threaded host: only the importing thread calls, and between    *)
(* its calls the host sets, changes or unsets PIISEC_CONFIG.               *)
(***************************************************************************)
\* os.environ["PIISEC_CONFIG"] = ... or del os.environ["PIISEC_CONFIG"]
Setenv ==
    /\ \E e \in EnvPathValues : e # environ /\ environ' = e
    /\ UNCHANGED <<heap, ENV_CONFIG_PATH, CONFIG_PATH, CONFIG, LOGGING_CONFIGURED,
                   root, imported, pc, loc, mrg>>

NextSingle ==
    \/ ImportPaths
    \/ ImportFinish
    \/ reload_config("main")
    \/ get_config("main")
    \/ Setenv

SpecSingle == Init /\ [][NextSingle]_vars

(***************************************************************************)
(* Calls that arrive before logging has been configured: the module body   *)
(* has run lines 37-62 and is at line 126, the flag is still False, and a  *)
(* second thread of the host reaches reload_config() through the module    *)
(* object while the importing thread runs the call of line 126.  No lock   *)
(* is taken anywhere in lines 93-112, so the steps of the two calls        *)
(* interleave freely.  Each thread calls once.                             *)
(***************************************************************************)
InitRace ==
    /\ heap = Compact(InitialConfig.h, <<DEFAULT_CONFIG, InitialConfig.v.a>>).h
    /\ environ = NoPathEnv
    /\ ENV_CONFIG_PATH = NoPathEnv
    /\ CONFIG_PATH = ResolveConfigPath(NoPathEnv)
    /\ CONFIG = InitialConfig.v.a
    /\ LOGGING_CONFIGURED = FALSE
    /\ root = RootInitial
    /\ imported = "racing"
    /\ pc = [t \in Threads |-> "idle"]
    /\ loc = [t \in Threads |-> BlankLocals]
    /\ mrg = MrgIdle

\* reload_config() is called by a thread that has not called before
CallDuringImport(t) ==
    /\ imported = "racing"
    /\ pc[t] = "idle"
    /\ loc[t] = BlankLocals
    /\ pc' = [pc EXCEPT ![t] = "L109"]
    /\ UNCHANGED <<heap, environ, ENV_CONFIG_PATH, CONFIG_PATH, CONFIG,
                   LOGGING_CONFIGURED, root, imported, loc, mrg>>

NextRace ==
    \E t \in Threads :
        \/ CallDuringImport(t)
        \/ Load(t)
        \/ Merge(t)
        \/ EnterConfigureLogging(t)
        \/ LevelName(t)
        \/ LevelAndFormat(t)
        \/ BasicConfig(t)
        \/ SetFlag(t)
        \/ Return(t)

SpecRace == InitRace /\ [][NextRace]_vars

(***************************************************************************)
(* A caller that writes into what it was handed: get_config() and          *)
(* reload_config() return _CONFIG by reference (lines 112 and 117), no     *)
(* copy is made, so an item assignment by the caller acts on the objects   *)
(* of the package.                                                         *)
(***************************************************************************)
\* the writes a caller makes: cfg["transport"]["require_tls"] = False and
\* cfg["extra"] = "x"
Mutations ==
    {[at |-> <<"transport">>, key |-> "require_tls", val |-> PyBool("False")],
     [at |-> <<>>,            key |-> "extra",       val |-> PyStr("x")]}

RECURSIVE Subscript(_, _, _)
\* v[at[1]][at[2]]...: the value reached, None where a key is missing or
\* the value is no dict
Subscript(h, v, at) ==
    IF at = <<>> THEN v
    ELSE IF IsDict(v) /\ at[1] \in DOMAIN h[v.a].d
         THEN Subscript(h, h[v.a].d[at[1]], Tail(at))
         ELSE PyNone

\* d[key] = val on the dict object at address a
SetItem(h, a, key, val) ==
    [h EXCEPT ![a] = Cell([k \in DOMAIN h[a].d \cup {key} |->
                             IF k = key THEN val ELSE h[a].d[k]])]

\* the caller assigns an item of the mapping it holds, or of a nested one
Mutate(t, m) ==
    /\ imported = "done"
    /\ pc[t] = "idle"
    /\ IsDict(loc[t].ret)
    /\ LET target == Subscript(heap, loc[t].ret, m.at)
       IN  /\ IsDict(target)
           /\ Commit(SetItem(heap, target.a, m.key, m.val), CONFIG, loc)
    /\ UNCHANGED <<environ, ENV_CONFIG_PATH, CONFIG_PATH, LOGGING_CONFIGURED,
                   root, imported, pc, mrg>>

NextMutate ==
    \/ ImportPaths
    \/ ImportFinish
    \/ reload_config("main")
    \/ get_config("main")
    \/ \E m \in Mutations : Mutate("main", m)

SpecMutate == Init /\ [][NextMutate]_vars

(***************************************************************************)
(* Properties of _deep_merge, checked under SpecMerge.                     *)
(***************************************************************************)
MergeReturned == mrg.pc \in {"called", "again"}
MergeResult == TreeOf(heap, Ref(mrg.result))

RECURSIVE MergedAsClaimed(_, _)
\* the mapping the contract describes for base B and override O
MergedAsClaimed(B, O) ==
    Map([key \in DOMAIN B.m \cup DOMAIN O.m |->
            IF key \notin DOMAIN O.m THEN B.m[key]
            ELSE IF key \in DOMAIN B.m /\ IsDict(B.m[key]) /\ IsDict(O.m[key])
                 THEN MergedAsClaimed(B.m[key], O.m[key])
                 ELSE O.m[key]])

\* C4: for any base mapping B and override mapping O the result of
\* _deep_merge(B, O) has exactly the keys of B union O; a key only in B has
\* B's value, a key in both with mappings on both sides has their recursive
\* merge, every other key of O has O's value verbatim.
C4_MergeFunctional ==
    (MergeReturned /\ IsDict(mrg.O0)) =>
        /\ DOMAIN MergeResult.m = DOMAIN mrg.B0.m \cup DOMAIN mrg.O0.m
        /\ MergeResult = MergedAsClaimed(mrg.B0, mrg.O0)

\* a call where "a" is merged recursively (keeping a key only B has under it)
\* and "b" is a list replaced by a different value
C4_Witness ==
    /\ MergeReturned
    /\ IsDict(mrg.O0)
    /\ DOMAIN mrg.B0.m = {"a", "b"} /\ DOMAIN mrg.O0.m = {"a", "b"}
    /\ IsDict(mrg.B0.m.a) /\ IsDict(mrg.O0.m.a)
    /\ DOMAIN mrg.B0.m.a.m = {"a", "b"} /\ DOMAIN mrg.O0.m.a.m = {"a"}
    /\ mrg.B0.m.a.m.a # mrg.O0.m.a.m.a
    /\ mrg.B0.m.b = PyList("[1]") /\ mrg.O0.m.b = PyStr("x")
    /\ MergeResult.m.a.m.b = mrg.B0.m.a.m.b
    /\ MergeResult.m.a.m.a = mrg.O0.m.a.m.a

\* C5: _deep_merge(B, O) leaves B and O structurally equal to what they were
\* before the call, at every nesting level, and a second call with the same
\* arguments returns a structurally equal result.
C5_MergePure ==
    /\ MergeReturned =>
          /\ TreeOf(heap, Ref(mrg.base)) = mrg.B0
          /\ TreeOf(heap, mrg.override) = mrg.O0
    /\ mrg.pc = "again" => TreeOf(heap, Ref(mrg.again)) = MergeResult

\* two calls have returned, the override changed a nested mapping of the base
C5_Witness ==
    /\ mrg.pc = "again"
    /\ IsDict(mrg.O0)
    /\ "a" \in DOMAIN mrg.B0.m /\ "a" \in DOMAIN mrg.O0.m
    /\ IsDict(mrg.B0.m.a) /\ IsDict(mrg.O0.m.a)
    /\ MergeResult.m.a # mrg.B0.m.a
    /\ mrg.again # mrg.result

\* C9: for every mapping B, _deep_merge(B, {}) is structurally equal to B, an
\* absent (None) override gives the same, and _deep_merge(DEFAULT_CONFIG, {})
\* equals DEFAULT_CONFIG.
C9_MergeEmptyOverride ==
    (MergeReturned /\ mrg.O0 \in {EmptyMap, PyNone}) =>
        /\ MergeResult = mrg.B0
        /\ mrg.base = DEFAULT_CONFIG => MergeResult = DEFAULT_CONFIG_TREE

\* _deep_merge(DEFAULT_CONFIG, None) has returned a new dict
C9_Witness ==
    /\ MergeReturned
    /\ mrg.O0 = PyNone
    /\ mrg.base = DEFAULT_CONFIG
    /\ mrg.result # mrg.base
    /\ MergeResult.m.transport.m.require_tls = PyBool("True")

(***************************************************************************)
(* Properties of the package, checked under Spec.                          *)
(***************************************************************************)
ConfigTree == TreeOf(heap, Ref(CONFIG))

\* C1: whatever the configuration file holds, the reload_config() call made
\* by the import completes without raising and leaves an effective
\* configuration in place.
C1_ImportNeverRaises ==
    /\ imported # "failed"
    /\ \A t \in Threads : loc[t].exc = ""
    /\ imported = "done" => IsDict(ConfigTree)

Severity ==
    [CRITICAL |-> 50, FATAL |-> 50, ERROR |-> 40, WARNING |-> 30, WARN |-> 30,
     INFO |-> 20, DEBUG |-> 10, NOTSET |-> 0]

\* logging.level of configuration tree T, "INFO" when it has none
ConfiguredLevel(T) ==
    IF "logging" \in DOMAIN T.m /\ IsDict(T.m.logging)
       /\ "level" \in DOMAIN T.m.logging.m
    THEN T.m.logging.m.level
    ELSE PyStr("INFO")

\* C3: at the first logging initialisation the level name is the value of
\* PIISEC_LOG_LEVEL whenever that variable is set, otherwise logging.level of
\* the effective configuration, otherwise "INFO"; the root logger gets the
\* severity of that name, so DEBUG in the environment wins over ERROR in the
\* file.
C3_LevelPrecedence ==
    \A t \in Threads :
        /\ pc[t] \in {"L99", "L102", "L103"} =>
              loc[t].level_name =
                  IF loc[t].env_level.set
                  THEN PyStr(loc[t].env_level.val)
                  ELSE ConfiguredLevel(TreeOf(heap, loc[t].cfg))
        /\ (pc[t] = "L103" /\ Upper(loc[t].level_name.s) \in DOMAIN Severity) =>
              root.level = Severity[Upper(loc[t].level_name.s)]
        /\ (/\ pc[t] = "L103"
            /\ loc[t].env_level = [set |-> TRUE, val |-> "DEBUG"]
            /\ ConfiguredLevel(TreeOf(heap, loc[t].cfg)) = PyStr("ERROR")) =>
              root.level = 10

\* file ERROR, environment DEBUG: basicConfig has set the root logger to DEBUG
C3_Witness ==
    \E t \in Threads :
        /\ pc[t] = "L103"
        /\ loc[t].env_level = [set |-> TRUE, val |-> "DEBUG"]
        /\ ConfiguredLevel(TreeOf(heap, loc[t].cfg)) = PyStr("ERROR")
        /\ root.level = 10
        /\ root.handlers = 1

\* the outcomes of a read that give no mapping
FailureOutcomes ==
    {"absent", "empty", "yaml_error", "open_error", "decode_error", "nonmapping"}

\* C6: when the path does not exist, the file is empty, does not parse,
\* cannot be read or decoded, or holds something that is no mapping,
\* _load_file_config returns an empty mapping, no exception escapes, and the
\* configuration reload_config() makes of it equals DEFAULT_CONFIG.
C6_LoadFailureGivesDefaults ==
    \A t \in Threads :
        loc[t].outcome \in FailureOutcomes =>
            /\ loc[t].exc \notin {"OSError", "UnicodeDecodeError", "YAMLError"}
            /\ pc[t] # "idle" => /\ IsDict(loc[t].file_cfg)
                                 /\ TreeOf(heap, loc[t].file_cfg) = EmptyMap
            /\ IsDict(loc[t].made) =>
                  /\ TreeOf(heap, loc[t].made) = DEFAULT_CONFIG_TREE
                  /\ loc[t].made.a # DEFAULT_CONFIG
                  /\ imported = "paths" => ConfigTree = DEFAULT_CONFIG_TREE

\* a reload after the import found the file unparsable, after an earlier
\* load of a mapping, and has stored the defaults
C6_Witness ==
    \E t \in Threads :
        /\ imported = "done"
        /\ pc[t] = "L111"
        /\ loc[t].outcome = "yaml_error"
        /\ loc[t].made = Ref(CONFIG)
        /\ ConfigTree = DEFAULT_CONFIG_TREE
        /\ \E u \in Threads : IsDict(loc[u].ret) /\
                TreeOf(heap, loc[u].ret) # DEFAULT_CONFIG_TREE

\* the key paths of the leaves of DEFAULT_CONFIG
DefaultLeafPaths ==
    {<<"transport", "require_tls">>,
     <<"permit_list", "recipients">>,
     <<"policy", "actions", "insecure_transport">>,
     <<"policy", "actions", "contains_phi_not_permitted">>,
     <<"policy", "actions", "otherwise">>,
     <<"logging", "level">>,
     <<"logging", "format">>}

RECURSIVE Lookup(_, _)
\* the value of tree T at key path p, Absent when there is none
Lookup(T, p) ==
    IF p = <<>> THEN T
    ELSE IF IsDict(T) /\ Head(p) \in DOMAIN T.m
         THEN Lookup(T.m[Head(p)], Tail(p))
         ELSE Absent

RECURSIVE SetBy(_, _)
\* mapping F sets key path p: it has a value at p or a non-mapping above p
SetBy(F, p) ==
    IF p = <<>> \/ ~IsDict(F) THEN TRUE
    ELSE IF Head(p) \notin DOMAIN F.m THEN FALSE
         ELSE SetBy(F.m[Head(p)], Tail(p))

\* C7: for any mapping F loaded from the file, every leaf of DEFAULT_CONFIG
\* whose key path F does not set has its default value in the configuration
\* the reload makes; with F = {logging: {level: "DEBUG"}} the result is the
\* defaults with logging.level "DEBUG" and nothing else changed.
C7_UnsetLeavesKeepDefaults ==
    \A t \in Threads :
        (IsDict(loc[t].file_cfg) /\ IsDict(loc[t].made)) =>
            LET F == TreeOf(heap, loc[t].file_cfg)
                R == TreeOf(heap, loc[t].made)
            IN  /\ \A p \in DefaultLeafPaths :
                      ~SetBy(F, p) => Lookup(R, p) = Lookup(DEFAULT_CONFIG_TREE, p)
                /\ F = Map([logging |-> Map([level |-> PyStr("DEBUG")])]) =>
                      /\ Lookup(R, <<"logging", "level">>) = PyStr("DEBUG")
                      /\ Lookup(R, <<"logging", "format">>) = PyStr(DefaultFormat)
                      /\ Lookup(R, <<"transport", "require_tls">>) = PyBool("True")
                      /\ Lookup(R, <<"permit_list", "recipients">>) = PyList("[]")
                      /\ Lookup(R, <<"policy", "actions">>) =
                            Lookup(DEFAULT_CONFIG_TREE, <<"policy", "actions">>)
                      /\ DOMAIN R.m = DOMAIN DEFAULT_CONFIG_TREE.m

\* the import has merged {logging: {level: "DEBUG"}} and is about to return
C7_Witness ==
    /\ imported = "paths"
    /\ pc["main"] = "L112"
    /\ TreeOf(heap, loc["main"].file_cfg) =
          Map([logging |-> Map([level |-> PyStr("DEBUG")])])
    /\ loc["main"].made = Ref(CONFIG)
    /\ Lookup(ConfigTree, <<"logging", "level">>) = PyStr("DEBUG")
    /\ Lookup(ConfigTree, <<"transport", "require_tls">>) = PyBool("True")

\* C8: for every level name that is none of the standard severity names,
\* whatever its case, the first logging initialisation raises nothing,
\* configures the root logger at INFO and sets the flag.
C8_UnknownLevelIsInfo ==
    \A t \in Threads :
        (loc[t].level_name.k = "str"
            /\ Upper(loc[t].level_name.s) \notin DOMAIN Severity) =>
            /\ loc[t].exc = ""
            /\ pc[t] = "L103" => root.level = 20
            /\ pc[t] = "L112" => LOGGING_CONFIGURED

\* C10: CONFIG_PATH is the path PIISEC_CONFIG names when the variable is set
\* to a non-empty string, and the packaged config.yaml when it is unset or
\* empty.
C10_ConfigPathResolution ==
    imported # "start" =>
        /\ ~ENV_CONFIG_PATH.set => CONFIG_PATH = DEFAULT_CONFIG_PATH
        /\ (ENV_CONFIG_PATH.set /\ ENV_CONFIG_PATH.val = <<>>) =>
              CONFIG_PATH = DEFAULT_CONFIG_PATH
        /\ (ENV_CONFIG_PATH.set /\ ENV_CONFIG_PATH.val # <<>>) =>
              /\ CONFIG_PATH = PathOf(ENV_CONFIG_PATH.val)
              /\ CONFIG_PATH # DEFAULT_CONFIG_PATH

\* imported with PIISEC_CONFIG=./conf//piisec.yaml
C10_Witness ==
    /\ imported = "done"
    /\ ENV_CONFIG_PATH.set
    /\ CONFIG_PATH = [root |-> "", parts |-> <<"conf", "piisec.yaml">>]

\* imported with PIISEC_CONFIG set to the empty string
C10_WitnessEmpty ==
    /\ imported = "done"
    /\ ENV_CONFIG_PATH = [set |-> TRUE, val |-> <<>>]
    /\ CONFIG_PATH = DEFAULT_CONFIG_PATH

(***************************************************************************)
(* Properties of a single-threaded run, checked under SpecSingle.          *)
(***************************************************************************)
\* thread t returns from reload_config() in this step
Returns(t) == pc[t] = "L112" /\ pc'[t] = "idle"

\* C11: in a single-threaded run a reload_config() call returns the mapping
\* that is then the effective configuration, that mapping is the merge of
\* the defaults with the file contents this call read, whatever the
\* effective configuration was before, and a get_config() after it returns
\* the same mapping again.
C11_ReloadResult ==
    [][/\ Returns("main") =>
            /\ loc'["main"].ret = Ref(CONFIG')
            /\ TreeOf(heap', loc'["main"].ret)
                 = MergedAsClaimed(DEFAULT_CONFIG_TREE,
                                   TreeOf(heap, loc["main"].file_cfg))
            /\ loc["main"].outcome \in FailureOutcomes
                 => TreeOf(heap', loc'["main"].ret) = DEFAULT_CONFIG_TREE
       /\ (imported = "done" /\ pc["main"] = "idle" /\ pc'["main"] = "idle"
              /\ IsDict(loc["main"].ret))
            => /\ loc'["main"].ret = Ref(CONFIG')
               /\ TreeOf(heap', loc'["main"].ret) = TreeOf(heap, loc["main"].ret)
      ]_vars

\* the import loaded a file that sets logging.format, and a later reload
\* returned exactly the defaults
C11_Witness ==
    /\ imported = "done"
    /\ pc["main"] = "idle"
    /\ root.fmt = "%(message)s"
    /\ IsDict(loc["main"].ret)
    /\ TreeOf(heap, loc["main"].ret) = DEFAULT_CONFIG_TREE

\* thread t has its file read by line 109 in this step
Loads(t) == pc[t] = "L109" /\ pc'[t] = "L110"

\* C12: once lines 39-40 have run, ENV_CONFIG_PATH and CONFIG_PATH never
\* change, whatever is done to PIISEC_CONFIG in the environment, and every
\* reload_config() gives the loader that CONFIG_PATH, the path resolved from
\* the environment of the import.
C12_PathResolvedOnce ==
    [][/\ imported # "start" =>
            /\ CONFIG_PATH' = CONFIG_PATH
            /\ ENV_CONFIG_PATH' = ENV_CONFIG_PATH
            /\ CONFIG_PATH = ResolveConfigPath(ENV_CONFIG_PATH)
       /\ Loads("main") => loc'["main"].path = CONFIG_PATH
      ]_vars

\* after the import the environment names another file, and a reload has
\* read the path of the import all the same
C12_Witness ==
    /\ imported = "done"
    /\ pc["main"] = "L110"
    /\ environ # ENV_CONFIG_PATH
    /\ ResolveConfigPath(environ) # CONFIG_PATH
    /\ loc["main"].path = CONFIG_PATH

(***************************************************************************)
(* Properties of concurrent calls.                                         *)
(***************************************************************************)
\* C13: the check of the flag (lines 95-96) and the setting of it (line
\* 103) are separate steps with nothing to exclude another thread between
\* them: the step that passes the check leaves the flag false, so does the
\* call of basicConfig, and only the step of line 103 changes the flag.
\* Both threads can therefore have passed the check and called basicConfig,
\* each with its own level and format, while the flag is still false
\* (C13_Witness).
C13_CheckAndSetSeparate ==
    [][/\ \A t \in Threads :
            /\ (pc[t] = "L111" /\ pc'[t] = "L98")
                 => ~LOGGING_CONFIGURED /\ ~LOGGING_CONFIGURED'
            /\ (pc[t] = "L102" /\ pc'[t] = "L103")
                 => LOGGING_CONFIGURED' = LOGGING_CONFIGURED
       /\ LOGGING_CONFIGURED' # LOGGING_CONFIGURED
            => \E t \in Threads : pc[t] = "L103" /\ pc'[t] = "L112"
      ]_vars

\* both threads have passed the check and have called basicConfig, with
\* different levels, and neither has set the flag
C13_Witness ==
    /\ ~LOGGING_CONFIGURED
    /\ \A t \in Threads : pc[t] = "L103"
    /\ loc["main"].level # loc["worker"].level
    /\ loc["main"].cfg # loc["worker"].cfg

\* thread t stores its merge result in _CONFIG in this step (line 110)
Stores(t) == pc[t] = "L110" /\ pc'[t] = "L111"

\* what a reload_config() call can make of the defaults and a file
CompleteMerges == {MergedAsClaimed(DEFAULT_CONFIG_TREE, F) : F \in FileDocs}

\* what the callers hold from get_config() and reload_config() is complete
ObservedComplete ==
    \A t \in Threads :
        (imported = "done" /\ pc[t] = "idle" /\ IsDict(loc[t].ret))
          => TreeOf(heap, loc[t].ret) \in CompleteMerges

\* C14: under every interleaving of two threads calling reload_config() and
\* get_config(), each store to _CONFIG puts there the complete merge of the
\* defaults with the file one call read, nothing but such a store changes
\* the effective configuration (so the last store is what remains when the
\* calls have finished), and what a reader holds is always one of these
\* complete merges.
C14_CompleteMergeLastStoreWins ==
    [][/\ \A t \in Threads :
            Stores(t) => ConfigTree'
                           = MergedAsClaimed(DEFAULT_CONFIG_TREE,
                                             TreeOf(heap, loc[t].file_cfg))
       /\ ConfigTree' # ConfigTree => \E t \in Threads : Stores(t)
       /\ ObservedComplete
       /\ ObservedComplete'
      ]_vars

\* the worker stored after the main thread did and has returned; the main
\* thread, still in its call, made a different mapping; a reader holds the
\* worker's
C14_Witness ==
    /\ imported = "done"
    /\ pc["main"] = "L112"
    /\ pc["worker"] = "idle"
    /\ IsDict(loc["worker"].ret)
    /\ loc["worker"].ret = Ref(CONFIG)
    /\ TreeOf(heap, loc["main"].made) # ConfigTree

\* C15: a reload_config() call returns the mapping this call made at line
\* 110, the merge of the defaults with the file this call read, also when
\* another call has stored its own result since.
C15_ReturnsOwnResult ==
    [][\A t \in Threads :
          Returns(t) =>
            TreeOf(heap', loc'[t].ret)
              = MergedAsClaimed(DEFAULT_CONFIG_TREE,
                                TreeOf(heap, loc[t].file_cfg))
      ]_vars

(***************************************************************************)
(* Properties under writes by the callers, checked under SpecMutate.       *)
(***************************************************************************)
\* C16: DEFAULT_CONFIG has its initial contents, at every nesting level, in
\* every reachable state, whatever the callers of reload_config() and
\* get_config() write into the mappings they were handed.
C16_DefaultsKeepContents ==
    TreeOf(heap, Ref(DEFAULT_CONFIG)) = DEFAULT_CONFIG_TREE

====
